---- MODULE Spec2Model ----
\* NotesManager (src/main.py): the interactive session over the notes
\* directory, the backups directory and the trash, one action per step of
\* main_loop and of the functions it dispatches to.
\*
\* Text (file names, titles, contents, typed input) is a sequence of
\* one-character strings, so that suffix tests, lower(), slicing, int() and
\* split(' ') are computed as the code computes them.
EXTENDS Integers, Sequences, FiniteSets, TLC

\* --------------------------------------------------------------- bounds
\* Largest note number a user types (0 and -1 are always typed as well).
MaxOrdinal == 4
\* Last calendar day the clock reaches.
MaxDay == 2
MaxLen == 4
\* ------------------------------------------------------------ constants
TXT_EXTENSION == <<".", "t", "x", "t">>

\* the directories ensure_directory_exists makes
MakeOrder == <<"notes", "backups", "csv", "json", "pdf", "plots">>
MadeDirs == { MakeOrder[i] : i \in 1..Len(MakeOrder) }

\* the directory of the file setup_logging opens
LogDir == "logs"

\* the retention threshold of delete_old_backups, in days
RetentionDays == 1

\* ----------------------------------------------------------------- text
DigitChar == <<"0", "1", "2", "3", "4", "5", "6", "7", "8", "9">>

IsDigit(c) == \E d \in 1..10 : DigitChar[d] = c

DigitValue(c) == (CHOOSE d \in 1..10 : DigitChar[d] = c) - 1

\* str(n) for n >= 0
RECURSIVE Str(_)
Str(n) == IF n < 10 THEN <<DigitChar[n + 1]>>
          ELSE Str(n \div 10) \o <<DigitChar[(n % 10) + 1]>>

\* the digits of an int() literal after its optional sign
Digits(s) == IF s # <<>> /\ s[1] \in {"-", "+"} THEN Tail(s) ELSE s

\* int(s) succeeds: an optional sign followed by at least one digit
IsIntLiteral(s) ==
    /\ Digits(s) # <<>>
    /\ \A i \in 1..Len(Digits(s)) : IsDigit(Digits(s)[i])

RECURSIVE DigitsValue(_)
DigitsValue(ds) ==
    IF ds = <<>> THEN 0
    ELSE 10 * DigitsValue(SubSeq(ds, 1, Len(ds) - 1)) + DigitValue(ds[Len(ds)])

\* int(s) for a literal s
IntValue(s) ==
    IF s # <<>> /\ s[1] = "-" THEN 0 - DigitsValue(Digits(s))
    ELSE DigitsValue(Digits(s))

\* s.endswith(suffix)
EndsWith(s, suffix) ==
    /\ Len(s) >= Len(suffix)
    /\ SubSeq(s, Len(s) - Len(suffix) + 1, Len(s)) = suffix

LowerChar(c) ==
    CASE c = "A" -> "a"
      [] c = "B" -> "b"
      [] c = "N" -> "n"
      [] c = "T" -> "t"
      [] c = "X" -> "x"
      [] OTHER -> c

\* s.lower()
Lower(s) == [i \in 1..Len(s) |-> LowerChar(s[i])]

\* s[:-4]
DropLast4(s) == SubSeq(s, 1, Len(s) - 4)

\* f'{title}.txt'
NoteFilename(title) == title \o TXT_EXTENSION

\* the path os.path.join(NOTES_DIR, name) leaves the notes directory
HasSeparator(name) == \E i \in 1..Len(name) : name[i] = "/"

\* buffer.split(' '): the pieces between single spaces, empty pieces kept
RECURSIVE Split(_)
Split(buffer) ==
    IF \A i \in 1..Len(buffer) : buffer[i] # " " THEN <<buffer>>
    ELSE LET i == CHOOSE j \in 1..Len(buffer) :
                      /\ buffer[j] = " "
                      /\ \A k \in 1..(j - 1) : buffer[k] # " "
         IN  <<SubSeq(buffer, 1, i - 1)>> \o Split(SubSeq(buffer, i + 1, Len(buffer)))

\* keyword in text
Contains(text, keyword) ==
    \E i \in 1..(Len(text) + 1) :
        /\ i + Len(keyword) - 1 <= Len(text)
        /\ SubSeq(text, i, i + Len(keyword) - 1) = keyword

\* ------------------------------------------------------------ inputs
Titles == { <<"a">>, <<"b">>, <<"a", "/", "b">> }

Contents == { <<"m">>, <<"m", " ", "e">> }

\* an entry of the notes directory that is not a note
ForeignName == <<"n", ".", "b", "a", "k">>
ForeignContent == <<>>

NotANumber == <<"x">>

\* what the user types at "Enter note number"
OrdinalInputs ==
    { NotANumber, <<"-", "1">> } \cup { Str(n) : n \in 0..MaxOrdinal }

\* what the user types at "Enter your choice", per specification
LifecycleChoices ==
    { NotANumber } \cup { Str(n) : n \in {1, 2, 3, 4, 5, 6, 7, 13, 15, 16} }

ArchiveChoices == { NotANumber } \cup { Str(n) : n \in {3, 8, 9, 15} }

\* ---------------------------------------------------------------- state
VARIABLES
    platform,      \* platform.system()
    clock,         \* the instant datetime.datetime.now() returns
    notesDir,      \* NOTES_DIR: the entries in os.listdir order
    backupDir,     \* BACKUP_DIR: the archives [date, ctime, entries]
    trash,         \* names held by the trash / recycle bin
    pc,            \* the statement the session is at
    choice,        \* main_loop: <<the raw text last read at the menu>>, <<>> before
    _choice,       \* main_loop: <<the local _choice>>, <<>> while it is unbound
    shown,         \* list_notes: the local notes, as displayed
    note_number,   \* <<the raw text read at "Enter note number">> in this command
    notes,         \* the listing the ordinal is resolved against
    target,        \* the file name the ordinal resolved to, <<>> before
    entered,       \* <<title, content>> typed in this command (create_note, update_note)
    report,        \* the message the operation printed
    exc,           \* the exception that ended the session
    logged,        \* the record log_note_action wrote in this operation
    result,        \* what the operation read or computed
    removed,       \* delete_old_backups: streak of runs and the files of the last run
    exportDir,     \* CSV_DIR, JSON_DIR, PDF_DIR: the files [dir, date, body]
    dirs           \* the directories that exist in the working directory

vars == <<platform, clock, notesDir, backupDir, trash, pc, choice, _choice,
          shown, note_number, notes, target, entered, report, exc, logged,
          result, removed, exportDir, dirs>>

\* what the session over notes, backups and trash leaves alone
aside == <<exportDir, dirs>>

locals == <<shown, notes, target>>

typed == <<note_number, entered>>

disk == <<notesDir, backupDir, trash>>

\* ------------------------------------------------------------ directory
\* os.listdir(NOTES_DIR): the names, in the order the file system gives
os_listdir(dir) == [i \in 1..Len(dir) |-> dir[i].name]

Names(dir) == { dir[i].name : i \in 1..Len(dir) }

\* os.path.exists(os.path.join(NOTES_DIR, name))
Exists(dir, name) == name \in Names(dir)

Entry(dir, name) == dir[CHOOSE i \in 1..Len(dir) : dir[i].name = name]

IsNote(name) == EndsWith(name, TXT_EXTENSION)

\* [f for f in listing if f.endswith(TXT_EXTENSION)]
TxtOnly(listing) == SelectSeq(listing, IsNote)

InsertAt(dir, pos, entry) ==
    SubSeq(dir, 1, pos - 1) \o <<entry>> \o SubSeq(dir, pos, Len(dir))

\* os.remove / the source side of a move
Unlink(dir, name) == SelectSeq(dir, LAMBDA e : e.name # name)

\* what os.path.getctime reports after an existing file is changed:
\* the inode change time, or on Windows still the creation time
TouchedCtime(old) == IF platform = "Windows" THEN old ELSE clock

\* open(name, 'w') and write(content): an existing entry keeps its place,
\* a new one appears where the file system puts it
WriteFile(dir, name, content, pos) ==
    IF Exists(dir, name)
    THEN [i \in 1..Len(dir) |->
            IF dir[i].name = name
            THEN [name |-> name, content |-> content,
                  ctime |-> TouchedCtime(dir[i].ctime)]
            ELSE dir[i]]
    ELSE InsertAt(dir, pos, [name |-> name, content |-> content, ctime |-> clock])

\* os.rename(old, new) on an existing old: new is replaced when it exists
RenameFile(dir, old, new, pos) ==
    IF old = new THEN dir
    ELSE InsertAt(Unlink(Unlink(dir, old), new), pos,
                  [name |-> new, content |-> Entry(dir, old).content,
                   ctime |-> TouchedCtime(Entry(dir, old).ctime)])

Positions(dir) == 1..(Len(dir) + 1)

\* an instant is a calendar day and a part of it: several instants, one date
Midnight == [day |-> 0, part |-> "am"]

\* datetime.datetime.fromtimestamp(instant).date()
Date(instant) == instant.day

\* (now - creation_date).days
Days(now, creation_date) == now - creation_date

\* ----------------------------------------------------------------- init
\* nothing typed, chosen, reported, trashed or exported yet
Blank ==
    /\ trash = {}
    /\ choice = <<>>
    /\ _choice = <<>>
    /\ shown = <<>>
    /\ note_number = <<>>
    /\ notes = <<>>
    /\ target = <<>>
    /\ entered = <<>>
    /\ report = ""
    /\ exc = ""
    /\ logged = <<>>
    /\ result = <<>>
    /\ removed = [streak |-> 0, now |-> 0, first |-> {}, files |-> {}]
    /\ exportDir = {}

\* main() has reached main_loop at instant now, with files in NOTES_DIR and
\* archives in BACKUP_DIR
Started(now, files, archives) ==
    /\ platform \in {"Linux", "Windows"}
    /\ clock = now
    /\ notesDir = files
    /\ backupDir = archives
    /\ pc = "main_loop"
    /\ dirs = MadeDirs \cup {LogDir}
    /\ Blank

Init == Started(Midnight, <<>>, {})

\* ------------------------------------------------------------ control
\* the function returns to the while loop of main_loop; its locals are gone
Return ==
    /\ pc' = "main_loop"
    /\ shown' = <<>>
    /\ notes' = <<>>
    /\ target' = <<>>
    /\ exc' = exc

\* an exception nothing catches ends the session
Raise(e) ==
    /\ pc' = "crashed"
    /\ exc' = e

\* the match statement of main_loop
Dispatch(n) ==
    CASE n = 1 -> "list_notes"
      [] n = 2 -> "search_note_by_keyword"
      [] n = 3 -> "create_note"
      [] n = 4 -> "open_note"
      [] n = 5 -> "delete_note"
      [] n = 6 -> "send_note_to_trash"
      [] n = 7 -> "update_note"
      [] n = 8 -> "create_backup"
      [] n = 9 -> "delete_old_backups"
      [] n = 10 -> "export_to_json"
      [] n = 11 -> "export_to_csv"
      [] n = 12 -> "export_to_pdf"
      [] n = 13 -> "plot_semantic_analysis"
      [] n = 14 -> "plot_user_statistics"
      [] n = 15 -> "finished"
      [] OTHER -> "main_loop"

\* one pass of the while loop up to the call the match makes
MainLoop(c) ==
    /\ pc = "main_loop"
    /\ choice' = <<c>>
    /\ _choice' = IF IsIntLiteral(c) THEN <<IntValue(c)>> ELSE _choice
    /\ report' = IF IsIntLiteral(c) THEN "" ELSE "Your choice should be integer!"
    /\ note_number' = <<>>
    /\ entered' = <<>>
    /\ logged' = <<>>
    /\ result' = <<>>
    /\ IF _choice' = <<>>
       THEN Raise("UnboundLocalError")
       ELSE pc' = Dispatch(_choice'[1]) /\ exc' = exc
    /\ UNCHANGED <<aside, platform, clock, disk, locals, removed>>

\* ----------------------------------------------------------- list_notes
\* the local notes of list_notes
list_notes(dir) ==
    LET kept == TxtOnly(os_listdir(dir))
    IN  [i \in 1..Len(kept) |-> Lower(kept[i])]

\* the titles list_notes prints, by position
Displayed(listing) == [i \in 1..Len(listing) |-> DropLast4(listing[i])]

ListNotes ==
    /\ pc = "list_notes"
    /\ report' = IF list_notes(notesDir) = <<>>
                 THEN "There is no saved notes" ELSE "Existing notes:"
    /\ result' = <<[display |-> Displayed(list_notes(notesDir))]>>
    /\ Return
    /\ UNCHANGED <<aside, platform, clock, disk, choice, _choice, typed, logged, removed>>

\* the list_notes() call that opens a by-number operation
ShowAndAsk(here, next) ==
    /\ pc = here
    /\ shown' = list_notes(notesDir)
    /\ pc' = next
    /\ UNCHANGED <<aside, platform, clock, disk, choice, _choice, typed, notes, target,
                   report, exc, logged, result, removed>>

\* the listing list_notes displayed, reused where a fresh one is due
DisplayedListing == shown

\* the os.listdir call made after the note number was read
CurrentListing == os_listdir(notesDir)

\* 1 <= note_num <= len(notes)
InRange(note_num, listing) == 1 <= note_num /\ note_num <= Len(listing)

\* the try block shared by the by-number operations, up to the action on the
\* file: int(note_number), the listing, the range test and both messages
Resolve(here, n, listing, next, notInteger) ==
    /\ pc = here
    /\ note_number' = <<n>>
    /\ IF ~IsIntLiteral(n)
       THEN /\ report' = notInteger
            /\ Return
       ELSE IF InRange(IntValue(n), listing)
       THEN /\ notes' = listing
            /\ target' = listing[IntValue(n)]
            /\ pc' = next
            /\ UNCHANGED <<shown, report, exc>>
       ELSE /\ report' = "Note number should be in range"
            /\ Return
    /\ UNCHANGED <<aside, platform, clock, disk, choice, _choice, entered, logged,
                   result, removed>>

\* ------------------------------------------------------- search, create
SearchNoteByKeyword(keyword) ==
    /\ pc = "search_note_by_keyword"
    /\ LET found == \E i \in 1..Len(notesDir) :
                       /\ IsNote(notesDir[i].name)
                       /\ Contains(Lower(notesDir[i].content), Lower(keyword))
       IN  report' = IF found THEN "Keyword was found"
                     ELSE "There is no notes which includes entered keyword!"
    /\ Return
    /\ UNCHANGED <<aside, platform, clock, disk, choice, _choice, typed, logged, result,
                   removed>>

CreateNote(title, content, pos) ==
    /\ pc = "create_note"
    /\ entered' = <<title, content>>
    /\ report' = IF Exists(notesDir, NoteFilename(title))
                 THEN "Note with that title already exists!" ELSE report
    /\ IF HasSeparator(title)
       THEN /\ Raise("FileNotFoundError")
            /\ UNCHANGED <<notesDir, logged, locals>>
       ELSE /\ notesDir' = WriteFile(notesDir, NoteFilename(title), content, pos)
            /\ logged' = <<[action |-> "Actions.CREATE", note |-> title]>>
            /\ Return
    /\ UNCHANGED <<aside, platform, clock, backupDir, trash, choice, _choice, note_number,
                   result, removed>>

\* ------------------------------------------------------------ open_note
OpenNoteList == ShowAndAsk("open_note", "open_note_input")

OpenNoteResolve(n) ==
    Resolve("open_note_input", n, TxtOnly(CurrentListing), "open_note_read",
            "Entered number is not integer!")

OpenNoteRead ==
    /\ pc = "open_note_read"
    /\ IF Exists(notesDir, target)
       THEN /\ result' = <<[title |-> target,
                            content |-> Entry(notesDir, target).content]>>
            /\ Return
       ELSE /\ Raise("FileNotFoundError")
            /\ UNCHANGED <<result, locals>>
    /\ UNCHANGED <<aside, platform, clock, disk, choice, _choice, typed, report, logged,
                   removed>>

\* ---------------------------------------------------------- update_note
UpdateNoteList == ShowAndAsk("update_note", "update_note_input")

UpdateNoteResolve(n) ==
    Resolve("update_note_input", n, TxtOnly(CurrentListing), "update_note_rename",
            "Entered number is not integer!")

\* the two input() calls and os.rename(old_filename, new_filename)
UpdateNoteRename(new_title, new_content) ==
    /\ pc = "update_note_rename"
    /\ entered' = <<new_title, new_content>>
    /\ LET new_filename == NoteFilename(new_title)
       IN  IF HasSeparator(new_title) \/ ~Exists(notesDir, target)
           THEN /\ Raise("FileNotFoundError")
                /\ UNCHANGED notesDir
           ELSE IF /\ platform = "Windows"
                   /\ new_filename # target
                   /\ Exists(notesDir, new_filename)
           THEN /\ Raise("FileExistsError")
                /\ UNCHANGED notesDir
           ELSE /\ \E pos \in Positions(Unlink(Unlink(notesDir, target), new_filename)) :
                       notesDir' = RenameFile(notesDir, target, new_filename, pos)
                /\ pc' = "update_note_write"
                /\ exc' = exc
    /\ UNCHANGED <<aside, platform, clock, backupDir, trash, choice, _choice, locals,
                   note_number, report, logged, result, removed>>

\* what the storage does with open(new_filename, 'w') and file.write
WriteOutcomes == {"written", "open fails", "write fails"}

\* open(new_filename, 'w'), write(new_content), log_note_action; the OSError
\* of a failed open or write meets no handler in update_note or main_loop
UpdateNoteWrite ==
    /\ pc = "update_note_write"
    /\ \E outcome \in WriteOutcomes, pos \in Positions(notesDir) :
           CASE outcome = "written" ->
                    /\ notesDir' = WriteFile(notesDir, NoteFilename(entered[1]),
                                             entered[2], pos)
                    /\ logged' = <<[action |-> "Actions.UPDATE", note |-> entered[1]]>>
                    /\ Return
             [] outcome = "open fails" ->
                    /\ Raise("OSError")
                    /\ UNCHANGED <<notesDir, logged, locals>>
             [] outcome = "write fails" ->
                    /\ notesDir' = WriteFile(notesDir, NoteFilename(entered[1]),
                                             <<>>, pos)
                    /\ Raise("OSError")
                    /\ UNCHANGED <<logged, locals>>
    /\ UNCHANGED <<aside, platform, clock, backupDir, trash, choice, _choice, typed,
                   report, result, removed>>

\* ---------------------------------------------------------- delete_note
DeleteNoteList == ShowAndAsk("delete_note", "delete_note_input")

\* the listing of delete_note keeps every entry of the directory
DeleteNoteResolve(n) ==
    Resolve("delete_note_input", n, CurrentListing, "delete_note_remove",
            "Entered number is not integer!")

DeleteNoteRemove ==
    /\ pc = "delete_note_remove"
    /\ IF Exists(notesDir, target)
       THEN /\ notesDir' = Unlink(notesDir, target)
            /\ logged' = <<[action |-> "DELETE", note |-> target]>>
            /\ Return
       ELSE /\ Raise("FileNotFoundError")
            /\ UNCHANGED <<notesDir, logged, locals>>
    /\ UNCHANGED <<aside, platform, clock, backupDir, trash, choice, _choice, typed,
                   report, result, removed>>

\* --------------------------------------------------- send_note_to_trash
SendNoteToTrashList == ShowAndAsk("send_note_to_trash", "send_note_to_trash_input")

SendNoteToTrashResolve(n) ==
    Resolve("send_note_to_trash_input", n, TxtOnly(CurrentListing),
            "send_note_to_trash_move", "Note number should be integer!")

\* send2trash(filename) on Windows; elsewhere shutil.move(filename, trash_path),
\* which refuses a name the trash directory already holds
SendNoteToTrashMove ==
    /\ pc = "send_note_to_trash_move"
    /\ IF platform # "Windows" /\ target \in trash
       THEN /\ Raise("shutil.Error")
            /\ UNCHANGED <<notesDir, trash, report, locals>>
       ELSE IF ~Exists(notesDir, target)
       THEN /\ Raise(IF platform = "Windows" THEN "OSError" ELSE "FileNotFoundError")
            /\ UNCHANGED <<notesDir, trash, report, locals>>
       ELSE /\ notesDir' = Unlink(notesDir, target)
            /\ trash' = trash \cup {target}
            /\ report' = "was sent to trash!"
            /\ Return
    /\ UNCHANGED <<aside, platform, clock, backupDir, choice, _choice, typed, logged,
                   result, removed>>

\* ------------------------------------- semantic_analysis and its plotting
\* s.removesuffix(suffix)
RemoveSuffix(s, suffix) ==
    IF EndsWith(s, suffix) THEN SubSeq(s, 1, Len(s) - Len(suffix)) ELSE s

\* words_frequency(buffer): every piece of split(' ') with its count
words_frequency(buffer) ==
    LET words == Split(buffer)
    IN  [w \in { words[i] : i \in 1..Len(words) } |->
            Cardinality({ i \in 1..Len(words) : words[i] = w })]

SemanticAnalysisList == ShowAndAsk("plot_semantic_analysis", "semantic_analysis_input")

\* semantic_analysis returns None from both error branches, and
\* plot_semantic_analysis unpacks whatever it returns
SemanticAnalysisResolve(n) ==
    /\ pc = "semantic_analysis_input"
    /\ note_number' = <<n>>
    /\ IF ~IsIntLiteral(n)
       THEN /\ report' = "Your number should be integer!"
            /\ Raise("TypeError")
            /\ UNCHANGED locals
       ELSE IF InRange(IntValue(n), TxtOnly(CurrentListing))
       THEN /\ notes' = TxtOnly(CurrentListing)
            /\ target' = TxtOnly(CurrentListing)[IntValue(n)]
            /\ pc' = "semantic_analysis_read"
            /\ UNCHANGED <<shown, report, exc>>
       ELSE /\ report' = "Your number should be in range"
            /\ notes' = TxtOnly(CurrentListing)
            /\ Raise("TypeError")
            /\ UNCHANGED <<shown, target>>
    /\ UNCHANGED <<aside, platform, clock, disk, choice, _choice, entered, logged,
                   result, removed>>

SemanticAnalysisRead ==
    /\ pc = "semantic_analysis_read"
    /\ IF Exists(notesDir, target)
       THEN /\ result' = <<[title |-> RemoveSuffix(target, TXT_EXTENSION),
                            words_freq |->
                                words_frequency(Entry(notesDir, target).content)]>>
            /\ Return
       ELSE /\ Raise("FileNotFoundError")
            /\ UNCHANGED <<result, locals>>
    /\ UNCHANGED <<aside, platform, clock, disk, choice, _choice, typed, report, logged,
                   removed>>

\* ------------------------------------------------- the shared directory
Running == pc \notin {"crashed", "finished"}

\* another process removes an entry of the notes directory
ExternalRemove(i) ==
    /\ Running
    /\ i \in 1..Len(notesDir)
    /\ notesDir' = Unlink(notesDir, notesDir[i].name)
    /\ UNCHANGED <<aside, platform, clock, backupDir, trash, pc, choice, _choice, locals,
                   typed, report, exc, logged, result, removed>>

\* another process puts a file that is not a note into the notes directory
ExternalCreate(pos) ==
    /\ Running
    /\ ~Exists(notesDir, ForeignName)
    /\ pos \in Positions(notesDir)
    /\ notesDir' = InsertAt(notesDir, pos,
                            [name |-> ForeignName, content |-> ForeignContent,
                             ctime |-> clock])
    /\ UNCHANGED <<aside, platform, clock, backupDir, trash, pc, choice, _choice, locals,
                   typed, report, exc, logged, result, removed>>

\* time passes
Tick ==
    /\ Running
    /\ ~(clock.day = MaxDay /\ clock.part = "pm")
    /\ clock' = IF clock.part = "am" THEN [day |-> clock.day, part |-> "pm"]
                 ELSE [day |-> clock.day + 1, part |-> "am"]
    /\ UNCHANGED <<aside, platform, disk, pc, choice, _choice, locals, typed, report,
                   exc, logged, result, removed>>

\* -------------------------------------------------------- create_backup
\* the members zip_file.write puts into the archive
Snapshot(dir) ==
    { [arcname |-> dir[i].name, content |-> dir[i].content] :
        i \in { j \in 1..Len(dir) : IsNote(dir[j].name) } }

\* zipfile.ZipFile(backup_filename, 'a'): the members of the day's archive kept
WriteArchiveAppending(dir, timestamp, entries) ==
    LET same == { b \in dir : b.date = timestamp }
        ctime == IF same = {} THEN clock
                 ELSE TouchedCtime((CHOOSE b \in same : TRUE).ctime)
        kept == UNION { b.entries : b \in same }
    IN  (dir \ same) \cup
            {[date |-> timestamp, ctime |-> ctime, entries |-> kept \cup entries]}

\* zipfile.ZipFile(backup_filename, 'w'): one file per date, rewritten
WriteArchive(dir, timestamp, entries) ==
    LET same == { b \in dir : b.date = timestamp }
        ctime == IF same = {} THEN clock
                 ELSE TouchedCtime((CHOOSE b \in same : TRUE).ctime)
    IN  (dir \ same) \cup {[date |-> timestamp, ctime |-> ctime, entries |-> entries]}

NoRuns == [streak |-> 0, now |-> 0, first |-> {}, files |-> {}]

\* the notes directory after every note was opened with mode 'w' instead
AfterTruncating(dir) ==
    [i \in 1..Len(dir) |->
        IF IsNote(dir[i].name) THEN [dir[i] EXCEPT !.content = <<>>] ELSE dir[i]]

\* the notes directory after every note was opened with mode 'r' and read
AfterReading(dir) == dir

\* result records the archive of the same date that the new one replaced
CreateBackup ==
    /\ pc = "create_backup"
    /\ backupDir' = WriteArchive(backupDir, Date(clock), Snapshot(notesDir))
    /\ notesDir' = AfterReading(notesDir)
    /\ report' = "Backup was created!"
    /\ result' = <<[replaced |-> { b \in backupDir : b.date = Date(clock) }]>>
    /\ removed' = NoRuns
    /\ Return
    /\ UNCHANGED <<aside, platform, clock, trash, choice, _choice, typed, logged>>

\* --------------------------------------------------- delete_old_backups
\* the files the loop of delete_old_backups removes
OldBackupsStrictlyOlder(dir, now) ==
    { b \in dir : Days(now, Date(b.ctime)) > RetentionDays }

OldBackupsFirstOnly(dir, now) ==
    LET old == { b \in dir : Days(now, Date(b.ctime)) >= RetentionDays }
    IN  { b \in old : \A o \in old : b.date <= o.date }

OldBackups(dir, now) ==
    { b \in dir : Days(now, Date(b.ctime)) >= RetentionDays }

DeleteOldBackups ==
    /\ pc = "delete_old_backups"
    /\ LET now == Date(clock)
           old == OldBackups(backupDir, now)
       IN  /\ backupDir' = backupDir \ old
           /\ removed' = IF removed.streak >= 1 /\ removed.now = now
                         THEN [streak |-> 2, now |-> now,
                               first |-> removed.first, files |-> old]
                         ELSE [streak |-> 1, now |-> now,
                               first |-> old, files |-> old]
    /\ report' = "Old backups was deleted!"
    /\ Return
    /\ UNCHANGED <<aside, platform, clock, notesDir, trash, choice, _choice, typed, logged,
                   result>>

\* -------------------------------------------------------------- exports
\* the notes in os.listdir order, as (file name, content) pairs
NotePairs(dir) ==
    LET kept == SelectSeq(dir, LAMBDA e : IsNote(e.name))
    IN  [i \in 1..Len(kept) |-> [title |-> kept[i].name, content |-> kept[i].content]]

\* open(FILENAME, 'w') in an export directory: one file per date, rewritten
WriteExport(files, dir, timestamp, body) ==
    { f \in files : ~(f.dir = dir /\ f.date = timestamp) }
        \cup {[dir |-> dir, date |-> timestamp, body |-> body]}

\* one row per note, written by csv.DictWriter with no header row
ExportToCsv ==
    /\ pc = "export_to_csv"
    /\ exportDir' = WriteExport(exportDir, "csv", Date(clock), NotePairs(notesDir))
    /\ notesDir' = AfterReading(notesDir)
    /\ report' = "Notes was exported into CSV"
    /\ Return
    /\ UNCHANGED <<dirs, platform, clock, backupDir, trash, choice, _choice, typed,
                   logged, result, removed>>

\* one object whose members, in insertion order, are file name: content
JsonMembers(pairs) ==
    [i \in 1..Len(pairs) |-> [key |-> pairs[i].title, value |-> pairs[i].content]]

ExportToJson ==
    /\ pc = "export_to_json"
    /\ exportDir' = WriteExport(exportDir, "json", Date(clock),
                                JsonMembers(NotePairs(notesDir)))
    /\ notesDir' = AfterReading(notesDir)
    /\ report' = "Notes was exported into JSON"
    /\ Return
    /\ UNCHANGED <<dirs, platform, clock, backupDir, trash, choice, _choice, typed,
                   logged, result, removed>>

\* the drawString calls of export_to_pdf: the title at y, the content at
\* y + dy, and y advanced by dy per note
PdfStrings(pairs) ==
    [k \in 1..(2 * Len(pairs)) |->
        LET i == (k + 1) \div 2
        IN  IF k % 2 = 1
            THEN [x |-> 15, y |-> 780 + 40 * (i - 1), label |-> "Title: ",
                  text |-> RemoveSuffix(pairs[i].title, TXT_EXTENSION)]
            ELSE [x |-> 15, y |-> 780 + 40 * i, label |-> "Content: ",
                  text |-> pairs[i].content]]

ExportToPdf ==
    /\ pc = "export_to_pdf"
    /\ exportDir' = WriteExport(exportDir, "pdf", Date(clock),
                                PdfStrings(NotePairs(notesDir)))
    /\ notesDir' = AfterReading(notesDir)
    /\ Return
    /\ UNCHANGED <<dirs, platform, clock, backupDir, trash, choice, _choice, typed,
                   report, logged, result, removed>>

\* statistics_by_date: creation date -> number of notes, then the bar chart
statistics_by_date(dir) ==
    LET kept == SelectSeq(dir, LAMBDA e : IsNote(e.name))
        dates == { Date(kept[i].ctime) : i \in 1..Len(kept) }
    IN  [d \in dates |-> Cardinality({ i \in 1..Len(kept) : Date(kept[i].ctime) = d })]

PlotUserStatistics ==
    /\ pc = "plot_user_statistics"
    /\ result' = <<[statistics |-> statistics_by_date(notesDir)]>>
    /\ Return
    /\ UNCHANGED <<aside, platform, clock, disk, choice, _choice, typed, report,
                   logged, removed>>

\* -------------------------------------------------------------- startup
\* ensure_directory_exists: os.makedirs(..., exist_ok=True) in order; a
\* directory that cannot be created ends the run at that call
EnsureDirectoryExists ==
    /\ pc = "main"
    /\ \/ /\ dirs' = dirs \cup MadeDirs
          /\ pc' = "setup_logging"
          /\ exc' = exc
       \/ \E k \in 1..Len(MakeOrder) :
              /\ MakeOrder[k] \notin dirs
              /\ dirs' = dirs \cup { MakeOrder[j] : j \in 1..(k - 1) }
              /\ Raise("PermissionError")
    /\ UNCHANGED <<exportDir, platform, clock, disk, choice, _choice, locals, typed,
                   report, logged, result, removed>>

\* logging.basicConfig(filename='logs/basic_logging.log'): the handler opens
\* the file at once and creates no directory
SetupLogging ==
    /\ pc = "setup_logging"
    /\ IF LogDir \in dirs
       THEN pc' = "main_loop" /\ exc' = exc
       ELSE Raise("FileNotFoundError")
    /\ UNCHANGED <<aside, platform, clock, disk, choice, _choice, locals, typed,
                   report, logged, result, removed>>

\* ------------------------------------------------------- specifications
Keywords == { <<"e">>, <<"M">> }

Environment ==
    \/ \E i \in 1..Len(notesDir) : ExternalRemove(i)
    \/ \E pos \in Positions(notesDir) : ExternalCreate(pos)

\* the session over the notes directory
Next ==
    \/ \E c \in LifecycleChoices : MainLoop(c)
    \/ ListNotes
    \/ \E keyword \in Keywords : SearchNoteByKeyword(keyword)
    \/ \E title \in Titles, content \in Contents, pos \in Positions(notesDir) :
           CreateNote(title, content, pos)
    \/ OpenNoteList
    \/ \E n \in OrdinalInputs : OpenNoteResolve(n)
    \/ OpenNoteRead
    \/ UpdateNoteList
    \/ \E n \in OrdinalInputs : UpdateNoteResolve(n)
    \/ \E title \in Titles, content \in Contents : UpdateNoteRename(title, content)
    \/ UpdateNoteWrite
    \/ DeleteNoteList
    \/ \E n \in OrdinalInputs : DeleteNoteResolve(n)
    \/ DeleteNoteRemove
    \/ SendNoteToTrashList
    \/ \E n \in OrdinalInputs : SendNoteToTrashResolve(n)
    \/ SendNoteToTrashMove
    \/ SemanticAnalysisList
    \/ \E n \in OrdinalInputs : SemanticAnalysisResolve(n)
    \/ SemanticAnalysisRead
    \/ Environment

Spec == Init /\ [][Next]_vars

\* the session over the backups directory, with time passing
ArchiveTitles == { <<"a">> }

ArchiveContents == { <<"m">> }

NextArchive ==
    \/ \E c \in ArchiveChoices : MainLoop(c)
    \/ \E title \in ArchiveTitles, content \in ArchiveContents,
          pos \in Positions(notesDir) : CreateNote(title, content, pos)
    \/ CreateBackup
    \/ DeleteOldBackups
    \/ Tick

SpecArchive == Init /\ [][NextArchive]_vars

\* the session over the derived artifacts, started the day after a backup
\* of an empty notes directory may have been made
ExportChoices ==
    { NotANumber } \cup { Str(n) : n \in {3, 8, 9, 10, 11, 12, 13, 14, 15} }

InitExport ==
    \E archives \in { {}, {[date |-> 0, ctime |-> Midnight, entries |-> {}]} } :
        Started([day |-> 1, part |-> "am"], <<>>, archives)

NextExport ==
    \/ \E c \in ExportChoices : MainLoop(c)
    \/ \E title \in ArchiveTitles, content \in ArchiveContents,
          pos \in Positions(notesDir) :
           CreateNote(title, content, pos)
    \/ CreateBackup
    \/ DeleteOldBackups
    \/ ExportToCsv
    \/ ExportToJson
    \/ ExportToPdf
    \/ SemanticAnalysisList
    \/ \E n \in OrdinalInputs : SemanticAnalysisResolve(n)
    \/ SemanticAnalysisRead
    \/ PlotUserStatistics
    \/ Environment

SpecExport == InitExport /\ [][NextExport]_vars

\* the session over one note whose content is any short text, or the
\* shopping list of the specification
WordChars == {"m", "e", " ", "\n"}

Milk ==
    <<"m", "i", "l", "k", " ", "e", "g", "g", "s", " ",
      "b", "r", "e", "a", "d", " ", "m", "i", "l", "k">>

Buffers ==
    UNION { [1..n -> WordChars] : n \in 0..MaxLen } \cup { Milk }

WordsChoices == { Str(13), Str(15) }

InitWords ==
    \E buffer \in Buffers :
        Started(Midnight,
                <<[name |-> NoteFilename(<<"a">>), content |-> buffer,
                   ctime |-> Midnight]>>,
                {})

NextWords ==
    \/ \E c \in WordsChoices : MainLoop(c)
    \/ SemanticAnalysisList
    \/ \E n \in OrdinalInputs : SemanticAnalysisResolve(n)
    \/ SemanticAnalysisRead

SpecWords == InitWords /\ [][NextWords]_vars

\* the program started in a working directory holding any of its directories
StartupChoices == { Str(1), Str(15) }

InitStartup ==
    /\ platform \in {"Linux", "Windows"}
    /\ clock = Midnight
    /\ notesDir = <<>>
    /\ backupDir = {}
    /\ pc = "main"
    /\ dirs \in SUBSET (MadeDirs \cup {LogDir})
    /\ Blank

NextStartup ==
    \/ EnsureDirectoryExists
    \/ SetupLogging
    \/ \E c \in StartupChoices : MainLoop(c)
    \/ ListNotes

SpecStartup == InitStartup /\ [][NextStartup]_vars

\* ---------------------------------------------------------------- claims
\* where open_note, update_note, delete_note and send_note_to_trash wait for
\* the note number, and where each is about to act on the resolved file
OrdinalInputPcs == {"open_note_input", "update_note_input", "delete_note_input",
                    "send_note_to_trash_input"}

OrdinalActPcs == {"open_note_read", "update_note_rename", "delete_note_remove",
                  "send_note_to_trash_move"}

\* the step that reads the note number in one of the four operations
ReadsOrdinal == pc \in OrdinalInputPcs /\ pc' # pc

\* the step that acts on the resolved file in one of the four operations
ActsOnTarget == pc \in OrdinalActPcs /\ pc' # pc

A_TXT == NoteFilename(<<"a">>)
B_TXT == NoteFilename(<<"b">>)

\* the number of notes in the directory now
NoteCount(dir) == Len(TxtOnly(os_listdir(dir)))

\* the characters of the model in code-point order
Alphabet == <<" ", "-", ".", "/", "0", "1", "2", "3", "4", "5", "6", "7", "8", "9",
              "A", "B", "N", "T", "X", "a", "b", "e", "k", "m", "n", "t", "x">>

CodePoint(c) == CHOOSE i \in 1..Len(Alphabet) : Alphabet[i] = c

RECURSIVE LexLess(_, _)
LexLess(s, t) ==
    IF s = <<>> THEN t # <<>>
    ELSE IF t = <<>> THEN FALSE
    ELSE IF s[1] = t[1] THEN LexLess(Tail(s), Tail(t))
    ELSE CodePoint(s[1]) < CodePoint(t[1])

Ascending(listing) ==
    \A i \in 1..(Len(listing) - 1) : LexLess(listing[i], listing[i + 1])

\* C1: in open_note, update_note, delete_note and send_note_to_trash the typed
\* ordinal is resolved against the directory as it is when the input is read,
\* not as it was displayed: the file resolved to, and every name of the listing
\* used, is an entry of the directory at that moment; with "a" and "b" displayed
\* and only "b" left, ordinal 1 resolves to "b".
C1_ResolvedAgainstCurrentListing ==
    [][(ReadsOrdinal /\ pc' \in OrdinalActPcs) =>
          /\ target' \in Names(notesDir)
          /\ \A i \in 1..Len(notes') : notes'[i] \in Names(notesDir)
          /\ (Names(notesDir) = {B_TXT} /\ note_number' = <<Str(1)>>) => target' = B_TXT
      ]_vars

\* C1 witness: "a" and "b" were displayed, "a" is gone, 1 was typed and the
\* operation is about to act on "b".
C1_Witness ==
    /\ pc \in OrdinalActPcs
    /\ shown = <<A_TXT, B_TXT>>
    /\ Names(notesDir) = {B_TXT}
    /\ note_number = <<Str(1)>>
    /\ target = B_TXT

\* C2: display and resolution use the same order, file names ascending: when
\* the directory is as displayed, the displayed listing is ascending and an
\* ordinal k of the displayed listing resolves to the note shown at position k.
C2_SameAscendingOrder ==
    [][(ReadsOrdinal /\ shown = list_notes(notesDir)) =>
          /\ Ascending(shown)
          /\ (/\ IsIntLiteral(note_number'[1])
              /\ InRange(IntValue(note_number'[1]), shown))
             => /\ pc' \in OrdinalActPcs
                /\ Lower(target') = shown[IntValue(note_number'[1])]
      ]_vars

\* C3: with N notes in the directory, the ordinals 0, -1 and N+1 are rejected
\* as out of range by the four operations and the directory is left as it was.
C3_OutOfRangeRejected ==
    [][(/\ ReadsOrdinal
        /\ IsIntLiteral(note_number'[1])
        /\ \/ IntValue(note_number'[1]) <= 0
           \/ IntValue(note_number'[1]) = NoteCount(notesDir) + 1) =>
          /\ pc' = "main_loop"
          /\ report' = "Note number should be in range"
          /\ notesDir' = notesDir
      ]_vars

\* C4: create(title, content) always completes; afterwards exactly one note
\* has that title, reading it by its ordinal returns content, and every other
\* entry is unchanged.
C4_CreateRoundTrip ==
    [][(pc = "create_note" /\ pc' # pc) =>
          LET filename == NoteFilename(entered'[1])
              at == { i \in 1..Len(notesDir') : notesDir'[i].name = filename }
          IN  /\ pc' = "main_loop"
              /\ Cardinality(at) = 1
              /\ \E k \in 1..NoteCount(notesDir') :
                     /\ TxtOnly(os_listdir(notesDir'))[k] = filename
                     /\ Entry(notesDir', filename).content = entered'[2]
              /\ \A i \in 1..Len(notesDir) :
                     notesDir[i].name # filename =>
                         \E j \in 1..Len(notesDir') : notesDir'[j] = notesDir[i]
              /\ Names(notesDir') = Names(notesDir) \cup {filename}
      ]_vars

\* C4, for titles that name a file of the notes directory: the same statement
\* restricted to titles without a path separator.
C4_CreateRoundTripPlainTitle ==
    [][(pc = "create_note" /\ pc' # pc /\ ~HasSeparator(entered'[1])) =>
          LET filename == NoteFilename(entered'[1])
          IN  /\ pc' = "main_loop"
              /\ Cardinality({ i \in 1..Len(notesDir') :
                                   notesDir'[i].name = filename }) = 1
              /\ Entry(notesDir', filename).content = entered'[2]
              /\ \A i \in 1..Len(notesDir) :
                     notesDir[i].name # filename =>
                         \E j \in 1..Len(notesDir') : notesDir'[j] = notesDir[i]
              /\ Names(notesDir') = Names(notesDir) \cup {filename}
      ]_vars

\* C5: renaming onto the title of a different existing note fails with
\* AlreadyExists: the update is reported and the session is back at the menu,
\* the other note keeps its title and content, and no note is lost.
C5_RenameCollisionRejected ==
    [][(/\ pc = "update_note_rename" /\ pc' # pc
        /\ Exists(notesDir, target)
        /\ NoteFilename(entered'[1]) # target
        /\ Exists(notesDir, NoteFilename(entered'[1]))) =>
          /\ pc' = "main_loop"
          /\ report' # report
          /\ Exists(notesDir', NoteFilename(entered'[1]))
          /\ Entry(notesDir', NoteFilename(entered'[1])).content
                 = Entry(notesDir, NoteFilename(entered'[1])).content
          /\ Len(notesDir') >= Len(notesDir)
      ]_vars

\* C6: when the resolved file is gone by the time the operation acts on it,
\* the operation reports it and the session is back at the menu, not ended.
C6_VanishedFileReported ==
    [][(ActsOnTarget /\ ~Exists(notesDir, target)) =>
          /\ pc' = "main_loop"
          /\ report' # report
      ]_vars

\* C7: while the menu choice last read is not an integer, the session is at
\* the menu prompt: no operation was started for it and the session did not end.
C7_NonIntegerChoiceContinues ==
    (choice # <<>> /\ ~IsIntLiteral(choice[1])) => pc = "main_loop"

\* C8: in every command that takes a note number, analysis included, a number
\* that is no integer or lies outside every listing of the directory is
\* reported and the session is back at the menu.
C8_BadOrdinalRecovered ==
    [][(/\ pc \in OrdinalInputPcs \cup {"semantic_analysis_input"}
        /\ pc' # pc
        /\ \/ ~IsIntLiteral(note_number'[1])
           \/ ~InRange(IntValue(note_number'[1]), os_listdir(notesDir))) =>
          /\ pc' = "main_loop"
          /\ report' # ""
      ]_vars

\* C9: delete_old_backups run again on the same date with no backup created
\* in between removes no file.
C9_PurgeIdempotent ==
    removed.streak = 2 => removed.files = {}

\* C9 witness: a second run on the same date, after a first run that removed
\* an archive and kept another.
C9_Witness ==
    /\ removed.streak = 2
    /\ removed.first # {}
    /\ backupDir # {}

\* C10: delete_old_backups removes exactly the archives whose creation date is
\* at least one day before the current date, and an archive create_backup made
\* on the current date stays as it is.
C10_PurgeExactlyOld ==
    [][(pc = "delete_old_backups" /\ pc' # pc) =>
          /\ \A b \in backupDir :
                 b \in backupDir' <=> clock.day - b.ctime.day < 1
          /\ backupDir' \subseteq backupDir
          /\ \A b \in backupDir : b.date = clock.day => b \in backupDir'
      ]_vars

\* C10 witness: a run that removed an archive of an earlier day and kept the
\* archive made on the day of the run.
C10_Witness ==
    /\ pc = "main_loop"
    /\ removed.streak = 1
    /\ removed.files # {}
    /\ \E b \in backupDir : b.date = clock.day /\ b.date = removed.now


\* the archive files of the current date
TodaysArchives(dir) == { b \in dir : b.date = clock.day }

\* the members an archive of the notes directory must have: every file that
\* carries the note suffix, under its own name and with its own content
NoteMembers(dir) ==
    { [arcname |-> dir[i].name, content |-> dir[i].content] :
        i \in { j \in 1..Len(dir) : EndsWith(dir[j].name, TXT_EXTENSION) } }

\* C11: after a backup there is exactly one archive for the current date,
\* its members are exactly the note files present when the backup ran, each
\* under its own name and with its content, whatever an earlier archive of
\* the same date held; the archives of other dates are left as they were.
C11_OneArchivePerDate ==
    [][(pc = "create_backup" /\ pc' # pc) =>
        /\ Cardinality(TodaysArchives(backupDir')) = 1
        /\ \A b \in TodaysArchives(backupDir') : b.entries = NoteMembers(notesDir)
        /\ backupDir' \ TodaysArchives(backupDir')
               = backupDir \ TodaysArchives(backupDir)]_vars

\* a second backup on the same date has replaced an archive holding a note
\* that was deleted in between
C11_Witness ==
    /\ pc = "main_loop"
    /\ report = "Backup was created!"
    /\ result # <<>>
    /\ \E old \in result[1].replaced : \E m \in old.entries :
           \A b \in TodaysArchives(backupDir) : m \notin b.entries

\* the operations that only read the notes
ReadOnlyPcs ==
    {"create_backup", "export_to_csv", "export_to_json", "export_to_pdf",
     "semantic_analysis_read", "plot_user_statistics", "delete_old_backups"}

\* C12: a backup, an export to CSV, JSON or PDF, the word count and the
\* per-date statistics leave every note as it was; the purge of old backups
\* removes files from the backup directory and touches nothing else.
C12_ReadOnly ==
    [][(pc \in ReadOnlyPcs /\ pc' # pc) =>
        /\ notesDir' = notesDir
        /\ trash' = trash
        /\ pc = "delete_old_backups" =>
               backupDir' \subseteq backupDir /\ exportDir' = exportDir]_vars

\* notes exist, all three exports and a backup of today were written, and
\* the purge has just removed an old archive
C12_Witness ==
    /\ pc = "main_loop"
    /\ \E i \in 1..Len(notesDir) : IsNote(notesDir[i].name) /\ notesDir[i].content # <<>>
    /\ { f.dir : f \in exportDir } = {"csv", "json", "pdf"}
    /\ \A f \in exportDir : f.body # <<>>
    /\ TodaysArchives(backupDir) # {}
    /\ removed.files # {}


\* C13: when update_note has renamed the note and the write of the new
\* content then fails, the failure is reported, no update is logged and the
\* session is back at the menu.
C13_PartialFailureSurfaced ==
    [][(pc = "update_note_write" /\ exc' # exc) =>
        /\ pc' = "main_loop"
        /\ report' # ""
        /\ logged' = <<>>]_vars


\* C15: a delete_note that removes something removes exactly one entry, an
\* entry that carries the note suffix, and leaves every other entry of the
\* notes directory, the files without the note suffix included, as it was.
C15_DeleteRemovesOneNote ==
    [][(pc = "delete_note_remove" /\ pc' = "main_loop") =>
        /\ IsNote(target)
        /\ notesDir' = Unlink(notesDir, target)
        /\ Len(notesDir') = Len(notesDir) - 1
        /\ \A i \in 1..Len(notesDir) :
               ~IsNote(notesDir[i].name) =>
                   \E j \in 1..Len(notesDir') : notesDir'[j] = notesDir[i]]_vars

\* C16: send_note_to_trash on a resolved note that is still in the notes
\* directory takes the note out of the directory or reports the failure, and
\* in both cases the session is back at the menu.
C16_TrashTakesOutOrReports ==
    [][(pc = "send_note_to_trash_move" /\ Exists(notesDir, target) /\ pc' # pc) =>
        /\ pc' = "main_loop"
        /\ ~Exists(notesDir', target) \/ report' # ""]_vars


\* whitespace, and the tokens of a text: its maximal runs of other characters
IsSpace(c) == c \in {" ", "\n"}

RECURSIVE Tokens(_)
Tokens(buffer) ==
    IF buffer = <<>> THEN <<>>
    ELSE IF IsSpace(Head(buffer)) THEN Tokens(Tail(buffer))
    ELSE LET n == CHOOSE k \in 1..Len(buffer) :
                      /\ \A j \in 1..k : ~IsSpace(buffer[j])
                      /\ k = Len(buffer) \/ IsSpace(buffer[k + 1])
         IN  <<SubSeq(buffer, 1, n)>> \o Tokens(SubSeq(buffer, n + 1, Len(buffer)))

\* the analysis of the note a.txt has returned its word frequencies
Analysed ==
    /\ pc = "main_loop"
    /\ result # <<>>
    /\ "words_freq" \in DOMAIN result[1]
    /\ Exists(notesDir, A_TXT)

\* the frequencies are those of the tokens: the keys are the tokens, each
\* non-empty, and each count is the token's number of occurrences
CountsTokens(freq, tokens) ==
    /\ DOMAIN freq = { tokens[i] : i \in 1..Len(tokens) }
    /\ \A w \in DOMAIN freq :
           /\ w # <<>>
           /\ freq[w] = Cardinality({ i \in 1..Len(tokens) : tokens[i] = w })

\* C14: the word frequencies of a content are those of its whitespace
\* separated tokens: every key is a non-empty token, every count is the
\* number of occurrences of its token, so the counts sum to the number of
\* tokens.
C14_WordFrequency ==
    Analysed =>
        CountsTokens(result[1].words_freq, Tokens(Entry(notesDir, A_TXT).content))

\* for a content of words separated by single spaces, the shopping list
\* included, the frequencies are those of the tokens
C14_SingleSpacedWords ==
    LET content == Entry(notesDir, A_TXT).content
    IN  (/\ Analysed
         /\ content # <<>>
         /\ \A i \in 1..Len(content) : content[i] # "\n"
         /\ \A i \in 1..Len(Split(content)) : Split(content)[i] # <<>>) =>
            CountsTokens(result[1].words_freq, Tokens(content))

\* the shopping list analysed: milk 2, eggs 1, bread 1
C14_MilkAnalysed ==
    /\ Analysed
    /\ Entry(notesDir, A_TXT).content = Milk
    /\ result[1].words_freq =
           (<<"m", "i", "l", "k">> :> 2) @@ (<<"e", "g", "g", "s">> :> 1)
               @@ (<<"b", "r", "e", "a", "d">> :> 1)


\* C17: once every directory main makes has been made, startup goes on to
\* the menu with every directory the program writes to in place, the
\* directory of the log file included: startup fails only where a directory
\* cannot be created.
C17_StartupReachesMenu ==
    [][(pc = "setup_logging" /\ pc' # pc) =>
        /\ pc' = "main_loop"
        /\ (MadeDirs \cup {LogDir}) \subseteq dirs']_vars

====
